---------------------------- MODULE Spec2Model ----------------------------
(***************************************************************************)
(* Money value object of vo-monetary (source/money.js).                    *)
(*                                                                         *)
(* A JavaScript Number is an IEEE 754 double.  It is modelled exactly: a   *)
(* finite double is sign * m * 2^e with m an odd natural below 2^53 kept   *)
(* as a little-endian sequence of 15-bit limbs (TLC integers are 32 bit).  *)
(* Native arithmetic (product, quotient, Math.pow) rounds to nearest, ties *)
(* to even.  Number-to-string conversion is the shortest round-trip        *)
(* decimal of ECMAScript's Number::toString, and strings are sequences of  *)
(* one-character strings, so parseInt really parses.                       *)
(***************************************************************************)
EXTENDS Integers, Sequences, FiniteSets, TLC

RECURSIVE Op(_, _)

(***************************************************************************)
(* Natural numbers of any size.                                            *)
(* A natural is the little-endian sequence of its limbs in base Radix, with *)
(* no leading zero limb; <<>> is 0.  The operators avoid deep recursion     *)
(* (carries are looked ahead, ranges are halved): TLC's stack is small.     *)
(***************************************************************************)
Radix == 2^15

Max2(a, b) == IF a >= b THEN a ELSE b

Min2(a, b) == IF a <= b THEN a ELSE b

SetMax(S) == CHOOSE x \in S : \A y \in S : y <= x

SetMin(S) == CHOOSE x \in S : \A y \in S : x <= y

\* the element of a set of one element.  TLC computes an operator's argument
\* where the operator first uses it, beneath all that waits for the result;
\* the elements of a set it computes at once.  Where that keeps TLC's stack
\* small, a value is computed as the element of a set and then used.
The(S) == CHOOSE x \in S : TRUE

Limb(a, i) == IF 1 <= i /\ i <= Len(a) THEN a[i] ELSE 0

Zeros(n) == [i \in 1..n |-> 0]

\* the sequence a without its leading zero limbs
BNorm(a) ==
  IF a = <<>> \/ a[Len(a)] # 0 THEN a
  ELSE LET nz == {i \in 1..Len(a) : a[i] # 0}
       IN IF nz = {} THEN <<>> ELSE SubSeq(a, 1, SetMax(nz))

BFromInt(n) ==
  IF n = 0 THEN <<>>
  ELSE IF n < Radix THEN <<n>>
  ELSE IF n < Radix * Radix THEN <<n % Radix, n \div Radix>>
  ELSE <<n % Radix, (n \div Radix) % Radix, n \div (Radix * Radix)>>

BOne == <<1>>

BCmp(a, b) ==
  IF Len(a) # Len(b) THEN (IF Len(a) < Len(b) THEN -1 ELSE 1)
  ELSE IF a = b THEN 0
  ELSE IF a[Len(a)] # b[Len(a)] THEN (IF a[Len(a)] < b[Len(a)] THEN -1 ELSE 1)
  ELSE LET i == SetMax({j \in 1..Len(a) : a[j] # b[j]})
       IN IF a[i] < b[i] THEN -1 ELSE 1

\* a + b: the carry into limb i comes from the nearest lower limb whose sum
\* is not Radix - 1, when that sum is Radix or more (s is the limb sums,
\* moved up by one place behind a 0 that gives no carry)
BCarry(s, i) ==
  IF s[i] # Radix - 1 THEN (IF s[i] >= Radix THEN 1 ELSE 0)
  ELSE IF s[SetMax({j \in 1..i : s[j] # Radix - 1})] >= Radix THEN 1 ELSE 0

BCarried(s) == BNorm([i \in 1..(Len(s) - 1) |-> (s[i + 1] + BCarry(s, i)) % Radix])

BAdd(a, b) ==
  BCarried(<<0>> \o [i \in 1..(Max2(Len(a), Len(b)) + 1) |-> Limb(a, i) + Limb(b, i)])

\* a - b for a >= b: the borrow into limb i comes from the nearest lower limb
\* whose difference is not 0, when that difference is negative (d is the limb
\* differences, moved up by one place behind a 1 that gives no borrow)
BBorrow(d, i) ==
  IF d[i] # 0 THEN (IF d[i] < 0 THEN 1 ELSE 0)
  ELSE IF d[SetMax({j \in 1..i : d[j] # 0})] < 0 THEN 1 ELSE 0

BBorrowed(d) ==
  BNorm([i \in 1..(Len(d) - 1) |-> (d[i + 1] - BBorrow(d, i) + Radix) % Radix])

BSub(a, b) == BBorrowed(<<1>> \o [i \in 1..Len(a) |-> a[i] - Limb(b, i)])

\* a * k for 0 <= k < Radix: the low halves of the limb products plus their
\* high halves one limb up
BMulSmall(a, k) ==
  IF k = 0 \/ a = <<>> THEN <<>>
  ELSE BAdd([i \in 1..Len(a) |-> (a[i] * k) % Radix],
            <<0>> \o [i \in 1..Len(a) |-> (a[i] * k) \div Radix])

\* a * 2^n
BShl(a, n) ==
  IF a = <<>> THEN a ELSE Zeros(n \div 15) \o BMulSmall(a, 2^(n % 15))

\* the sum of a * b[i] * Radix^(i-1) for i in lo..hi
RECURSIVE BMulRange(_, _, _, _)
BMulRange(a, b, lo, hi) ==
  IF lo = hi
  THEN (IF b[lo] = 0 THEN <<>> ELSE Zeros(lo - 1) \o BMulSmall(a, b[lo]))
  ELSE The({BAdd(x, y) : x \in {BMulRange(a, b, lo, (lo + hi) \div 2)},
                         y \in {BMulRange(a, b, ((lo + hi) \div 2) + 1, hi)}})

BMul(a, b) ==
  IF a = <<>> \/ b = <<>> THEN <<>> ELSE BMulRange(a, b, 1, Len(b))

\* limbs hi down to lo of a divided by k, 0 < k <= Radix, with the remainder
\* r of the limbs above them; the quotient limbs come highest first
RECURSIVE BDivRange(_, _, _, _, _)
BDivRange(a, k, hi, lo, r) ==
  IF hi = lo
  THEN [q |-> <<(r * Radix + a[hi]) \div k>>, r |-> (r * Radix + a[hi]) % k]
  ELSE LET top == BDivRange(a, k, hi, (hi + lo + 1) \div 2, r)
           bot == BDivRange(a, k, ((hi + lo + 1) \div 2) - 1, lo, top.r)
       IN [q |-> top.q \o bot.q, r |-> bot.r]

Reverse(a) == [i \in 1..Len(a) |-> a[Len(a) + 1 - i]]

\* quotient and remainder of a by k, 0 < k <= Radix
BDivSmall(a, k) ==
  IF a = <<>> THEN [q |-> <<>>, r |-> 0]
  ELSE LET d == BDivRange(a, k, Len(a), 1, 0)
       IN [q |-> BNorm(Reverse(d.q)), r |-> d.r]

SmallBitLen(n) == IF n = 0 THEN 0 ELSE SetMin({k \in 1..15 : n < 2^k})

BBitLen(a) == IF a = <<>> THEN 0 ELSE 15 * (Len(a) - 1) + SmallBitLen(a[Len(a)])

\* floor(a / 2^n)
BShr(a, n) ==
  IF n \div 15 >= Len(a) THEN <<>>
  ELSE BDivSmall(SubSeq(a, (n \div 15) + 1, Len(a)), 2^(n % 15)).q

BIsOdd(a) == a # <<>> /\ a[1] % 2 = 1

\* the number of trailing zero bits of a # 0
BTrailZ(a) ==
  LET i == SetMin({j \in 1..Len(a) : a[j] # 0})
  IN 15 * (i - 1) + SetMax({k \in 0..14 : a[i] % (2^k) = 0})

\* 5^k
RECURSIVE BPow5(_)
BSquare(a) == BMul(a, a)

BPow5(k) ==
  IF k <= 6 THEN <<5^k>>
  ELSE BMulSmall(BSquare(BPow5(k \div 2)), IF k % 2 = 1 THEN 5 ELSE 1)

\* one step of long division in base Radix: the quotient limb at position i
\* (counted from 0) of r by b, whose top limb is Radix/2 or more, is at most
\* the quotient of the leading limbs and at least that minus 2
BDivTake(r, q, p0, p1, p2) ==
  LET p == IF BCmp(p0, r) <= 0 THEN 0 ELSE IF BCmp(p1, r) <= 0 THEN 1 ELSE 2
  IN [q |-> <<q - p>>, r |-> BSub(r, IF p = 0 THEN p0 ELSE IF p = 1 THEN p1 ELSE p2)]

BDivTimes(b, i, c) == IF c <= 0 THEN <<>> ELSE Zeros(i) \o BMulSmall(b, c)

BDivLimb(r, b, i, est) ==
  BDivTake(r, est, BDivTimes(b, i, est), BDivTimes(b, i, est - 1), BDivTimes(b, i, est - 2))

BDivStep(r, b, i) ==
  BDivLimb(r, b, i, Min2((Limb(r, i + Len(b) + 1) * Radix + Limb(r, i + Len(b)))
                           \div b[Len(b)], Radix - 1))

\* the quotient limbs hi, .. lo of r by b, highest first
RECURSIVE BDivLimbs(_, _, _, _)
BDivLimbs(r, b, hi, lo) ==
  IF hi = lo THEN BDivStep(r, b, hi)
  ELSE LET top == BDivLimbs(r, b, hi, (hi + lo + 1) \div 2)
           bot == BDivLimbs(top.r, b, ((hi + lo + 1) \div 2) - 1, lo)
       IN [q |-> top.q \o bot.q, r |-> bot.r]

\* quotient and remainder of a by b, both times 2^s, the top limb of b being
\* Radix/2 or more
BDivDone(d, s) == [q |-> BNorm(Reverse(d.q)), r |-> BShr(d.r, s)]

BDivNormal(a, b, s) == BDivDone(BDivLimbs(a, b, Len(a) - Len(b), 0), s)

BDivBy(a, b, s) == BDivNormal(BShl(a, s), BShl(b, s), s)

\* quotient and remainder of a by b # 0
BDivMod(a, b) ==
  IF b = BOne THEN [q |-> a, r |-> <<>>]
  ELSE IF BCmp(a, b) < 0 THEN [q |-> <<>>, r |-> a]
  ELSE BDivBy(a, b, 15 - SmallBitLen(b[Len(b)]))

(***************************************************************************)
(* JavaScript values.  Every value is a record with a type tag t, so that  *)
(* values of different types can be compared.                              *)
(***************************************************************************)
Undefined == [t |-> "undefined"]

Bool(b) == [t |-> "boolean", b |-> b]

\* a string is the sequence of its characters
Str(chars) == [t |-> "string", c |-> chars]

\* an instance of the Currency value object, identified by its code
Cur(code) == [t |-> "currency", code |-> code]

\* a reference to an object of the heap
Ref(i) == [t |-> "ref", i |-> i]

Null == [t |-> "null"]

\* what stands in an object for a property it does not have
Absent == [t |-> "absent"]

\* an object with (some of) the four properties of a Money; a Money instance
\* has the class Money and is frozen
Object(amount, currency, decimals, base) ==
  [t |-> "object", cls |-> "Object", frozen |-> FALSE,
   amount |-> amount, currency |-> currency, decimals |-> decimals, base |-> base]

TypeOf(v) == IF v.t \in {"object", "ref", "null", "currency"} THEN "object" ELSE v.t

(***************************************************************************)
(* Numbers: IEEE 754 binary64                                              *)
(***************************************************************************)
DoublePrec == 53

DoubleEMax == 1024

DoubleEMin == -1074

\* sign s (1 or -1), odd mantissa m (or <<>> for zero), exponent e
Fin(s, m, e) == [t |-> "number", k |-> "fin", s |-> s, m |-> m, e |-> e]

NaN == [t |-> "number", k |-> "nan", s |-> 1, m |-> <<>>, e |-> 0]

Inf(s) == [t |-> "number", k |-> "inf", s |-> s, m |-> <<>>, e |-> 0]

\* +0 and -0 are one value here: they print alike and compare equal (===)
Zero == Fin(1, <<>>, 0)

IsNumber(v) == v.t = "number"

IsFinite(v) == v.t = "number" /\ v.k = "fin"

IsNaN(v) == v.t = "number" /\ v.k = "nan"

\* the double s * m * 2^e for any m below 2^53, with m made odd
Canon(s, m, e) ==
  IF m = <<>> THEN Zero
  ELSE LET z == BTrailZ(m) IN Fin(s, BShr(m, z), e + z)

\* the double of sign s and exponent e that the significand m gives
Overflowing(s, m, e) ==
  IF BBitLen(m) + e > DoubleEMax THEN Inf(s) ELSE Canon(s, m, e)

\* Round when the last d bits of Q are cut off, q being the other bits
\* q, or q + 1 when the bits cut off compare as c (-1, 0, 1) with one half
RoundUp(q, c, sticky) ==
  IF c > 0 \/ (c = 0 /\ (sticky \/ BIsOdd(q))) THEN BAdd(q, BOne) ELSE q

\* Q without its last d bits, rounded
RoundCut(Q, sticky, d, q) ==
  IF d <= 0 THEN Q
  ELSE RoundUp(q, BCmp(BSub(Q, BShl(q, d)), BShl(BOne, d - 1)), sticky)

RoundAt(s, Q, sticky, e0, d) ==
  Overflowing(s, RoundCut(Q, sticky, d, BShr(Q, Max2(d, 0))), e0 + Max2(d, 0))

\* s * (Q + f) * 2^e0 rounded to nearest, ties to even, where 0 <= f < 1
\* and sticky says whether f > 0 (then Q has at least DoublePrec + 2 bits)
Round(s, Q, sticky, e0) ==
  IF Q = <<>> THEN Zero
  ELSE RoundAt(s, Q, sticky, e0, Max2(BBitLen(Q) - DoublePrec, DoubleEMin - e0))

\* s * (num / den) * 2^e0 rounded to the nearest double
RoundQuot(s, d, e0) == Op("Round", <<s, d.q, d.r # <<>>, e0>>)

RoundShifted(s, num, den, e0, sh) == RoundQuot(s, Op("BDivMod", <<BShl(num, sh), den>>), e0 - sh)

RoundRat(s, num, den, e0) ==
  IF num = <<>> THEN Zero
  ELSE RoundShifted(s, num, den, e0,
                    IF den = BOne THEN 0
                    ELSE Max2(0, DoublePrec + 2 - (BBitLen(num) - BBitLen(den))))

\* x * y
NumMul(x, y) ==
  IF x.k = "nan" \/ y.k = "nan" THEN NaN
  ELSE IF x.k = "inf" \/ y.k = "inf"
       THEN (IF x = Zero \/ y = Zero THEN NaN ELSE Inf(x.s * y.s))
  ELSE Op("Round", <<x.s * y.s, BMul(x.m, y.m), FALSE, x.e + y.e>>)

\* x / y
NumDiv(x, y) ==
  IF x.k = "nan" \/ y.k = "nan" THEN NaN
  ELSE IF x.k = "inf" THEN (IF y.k = "inf" THEN NaN ELSE Inf(x.s * y.s))
  ELSE IF y.k = "inf" THEN Zero
  ELSE IF y = Zero THEN (IF x = Zero THEN NaN ELSE Inf(x.s))
  ELSE Op("RoundRat", <<x.s * y.s, x.m, y.m, x.e - y.e>>)

\* Math.pow(10, k) for an integer k: the double nearest to 10^k
MathPow10Of(k, p5) ==
  Op("RoundRat", <<1, IF k >= 0 THEN p5 ELSE BOne, IF k >= 0 THEN BOne ELSE p5, k>>)

MathPow10(k) == MathPow10Of(k, BPow5(IF k >= 0 THEN k ELSE -k))

\* the number n, and the integer a number of small size is
NumOfInt(n) == Canon(IF n >= 0 THEN 1 ELSE -1, BFromInt(IF n >= 0 THEN n ELSE -n), 0)

IsSmallInt(x) == x.t = "number" /\ x.k = "fin" /\ x.e >= 0 /\ BBitLen(x.m) + x.e <= 15

IntOfNum(x) == IF x = Zero THEN 0 ELSE x.s * x.m[1] * 2^x.e

MathAbs(x) == IF x.k = "nan" THEN NaN ELSE [x EXCEPT !.s = 1]

MathFloor(x) ==
  IF x.k # "fin" \/ x.e >= 0 THEN x
  ELSE Canon(x.s, BAdd(BShr(x.m, -x.e), IF x.s = 1 THEN <<>> ELSE BOne), 0)

(***************************************************************************)
(* Number to string and back (ECMAScript Number::toString, parseInt,       *)
(* parseFloat), through the decimal digits.                                *)
(***************************************************************************)
\* 10^k
BPow10(k) == BShl(BPow5(k), k)

\* floor(v * 2^e * 10^t), and whether nothing was cut off; p5 is 5^|t|
ScaleUp(p, sh) ==
  IF sh >= 0 THEN [q |-> BShl(p, sh), exact |-> TRUE]
  ELSE [q |-> BShr(p, -sh), exact |-> BTrailZ(p) >= -sh]

ScaleDown(d) == [q |-> d.q, exact |-> d.r = <<>>]

ScaleDec(v, e, t, p5) ==
  IF t >= 0 THEN The({ScaleUp(p, e + t) : p \in {BMul(v, p5)}})
  ELSE ScaleDown(Op("BDivMod", <<BShl(v, Max2(e + t, 0)), BShl(p5, Max2(-(e + t), 0))>>))

\* the double nearest to s * c * 10^q (what reading a decimal literal gives)
RoundDecBy(s, c, q, p5) ==
  Op("RoundRat", <<s, IF q >= 0 THEN BMul(c, p5) ELSE c, IF q >= 0 THEN BOne ELSE p5, q>>)

RoundDec(s, c, q) == RoundDecBy(s, c, q, BPow5(IF q >= 0 THEN q ELSE -q))

\* a natural of up to 18 digits as the pair of its upper and its lower nine
\* digits (10^9 is 31250 * 32000)
Pow10(j) == 10^j

PairFrom(a, b) == <<Limb(b.q, 1) + Radix * Limb(b.q, 2), b.r * 31250 + a.r>>

PairSplit(a) == PairFrom(a, BDivSmall(a.q, 32000))

PairOf(c) == PairSplit(BDivSmall(c, 31250))

BOfPair(P) == BAdd(BMul(BFromInt(P[1]), BFromInt(Pow10(9))), BFromInt(P[2]))

PairLe(P, Q) == P[1] < Q[1] \/ (P[1] = Q[1] /\ P[2] <= Q[2])

\* P without its last j digits, and those digits
PairDiv(P, j) ==
  IF j >= 9 THEN <<0, P[1] \div Pow10(j - 9)>>
  ELSE <<P[1] \div Pow10(j), ((P[1] % Pow10(j)) * Pow10(9 - j)) + (P[2] \div Pow10(j))>>

PairMod(P, j) ==
  IF j >= 9 THEN <<P[1] % Pow10(j - 9), P[2]>> ELSE <<0, P[2] % Pow10(j)>>

\* P with its last j digits made 0, and that plus 10^j
PairFloor(P, j) ==
  IF j >= 9 THEN <<P[1] - (P[1] % Pow10(j - 9)), 0>>
  ELSE <<P[1], P[2] - (P[2] % Pow10(j))>>

PairCeil(P, j) ==
  LET f == PairFloor(P, j)
  IN IF j >= 9 THEN <<f[1] + Pow10(j - 9), 0>>
     ELSE IF f[2] + Pow10(j) = Pow10(9) THEN <<f[1] + 1, 0>>
     ELSE <<f[1], f[2] + Pow10(j)>>

\* whether X cut down, or up, at its last j digits lies within the bounds
OkLo(Lmin, X, j) == PairLe(Lmin, PairFloor(X, j))

OkHi(Umax, X, j) == PairLe(PairCeil(X, j), Umax)

DecimalOf(C, nd, j, t) ==
  IF C = <<Pow10(nd - 9), 0>> THEN [s |-> <<0, 1>>, k |-> 1, n |-> nd - t + 1]
  ELSE [s |-> PairDiv(C, j), k |-> nd - j, n |-> nd - t]

DecimalCut(Umax, Lmin, X, h, exact, t, j) ==
  LET r    == PairMod(X, j)
      half == IF j >= 10 THEN <<5 * Pow10(j - 10), 0>> ELSE <<0, 5 * Pow10(Max2(j, 1) - 1)>>
      loNearer == IF j = 0 THEN h = 0
                  ELSE PairLe(r, half) /\ r # half
      tie  == IF j = 0 THEN h = 1 /\ exact
              ELSE r = half /\ h = 0 /\ exact
      useHi == IF OkLo(Lmin, X, j) /\ OkHi(Umax, X, j)
               THEN ~loNearer /\ (~tie \/ PairDiv(X, j)[2] % 2 = 1)
               ELSE OkHi(Umax, X, j)
  IN DecimalOf(IF useHi THEN PairCeil(X, j) ELSE PairFloor(X, j),
                       IF X[1] >= Pow10(8) THEN 18 ELSE 17, j, t)

\* the most digits that can be dropped, and the decimal that drops them
DecimalDigits(Umax, Lmin, X, h, exact, t) ==
  DecimalCut(Umax, Lmin, X, h, exact, t,
       SetMax({i \in 0..17 : OkLo(Lmin, X, i) \/ OkHi(Umax, X, i)}))

DecimalBounded(up, lo, x2, incl, t) ==
  DecimalDigits(PairOf(IF incl \/ ~up.exact THEN up.q ELSE BSub(up.q, BOne)),
       PairOf(IF incl /\ lo.exact THEN lo.q ELSE BAdd(lo.q, BOne)),
       PairOf(BShr(x2.q, 1)),
       IF BIsOdd(x2.q) THEN 1 ELSE 0, x2.exact, t)

\* Decimal for x = X4 * 2^(E-2), whose neighbours are 4 and gap quarters of
\* the unit 2^E away: the bounds and x, as pairs, in units of 10^(-t)
DecimalScaled(X4, gap, incl, E, t, p5) ==
  The({DecimalBounded(up, lo, x2, incl, t) :
         up \in {Op("ScaleDec", <<BAdd(X4, <<2>>), E - 2, t, p5>>)},
         lo \in {Op("ScaleDec", <<BSub(X4, gap), E - 2, t, p5>>)},
         x2 \in {Op("ScaleDec", <<X4, E - 1, t, p5>>)}})

\* Number::toString, step 5 of the specification, for x = m * 2^e: integers
\* n, k and s with 10^(k-1) <= s < 10^k, s * 10^(n-k) reading back as x, and
\* k as small as possible (never above 17); of several s the nearest to x, the
\* even one on a tie.  A decimal reads back as x when it lies between the
\* midpoints to the neighbours of x, the midpoints included when the 53-bit
\* significand of x is even.  All is counted in units of 10^(-t), in which x
\* has nd = 17 or 18 digits (log10(2) is 0.30103 nearly).
Decimal(m, e) ==
  LET E  == Max2(BBitLen(m) + e - DoublePrec, DoubleEMin)
      t  == 16 - (((BBitLen(m) + e - 1) * 30103) \div 100000)
  IN DecimalScaled(BShl(m, e - E + 2),
                           IF m = BOne /\ E > DoubleEMin THEN BOne ELSE <<2>>,
                           e > E, E, t, BPow5(IF t >= 0 THEN t ELSE -t))

DigitChars == <<"0", "1", "2", "3", "4", "5", "6", "7", "8", "9">>

IsDigit(ch) == \E d \in 1..10 : DigitChars[d] = ch

DigitVal(ch) == (CHOOSE d \in 1..10 : DigitChars[d] = ch) - 1

\* the k digits of the pair P
DigitsOfPair(P, k) ==
  [i \in 1..k |-> DigitChars[(IF k - i >= 9 THEN (P[1] \div Pow10(k - i - 9)) % 10
                              ELSE (P[2] \div Pow10(k - i)) % 10) + 1]]

\* the digits of a natural below 10^9
DigitsOfInt(v) == DigitsOfPair(<<0, v>>, SetMin({k \in 1..9 : v < Pow10(k)}))

Repeat(ch, n) == [i \in 1..n |-> ch]

Written(d) ==
  LET ds == DigitsOfPair(d.s, d.k)
      k  == d.k
      n  == d.n
  IN IF k <= n /\ n <= 21 THEN ds \o Repeat("0", n - k)
     ELSE IF 0 < n /\ n <= 21 THEN SubSeq(ds, 1, n) \o <<".">> \o SubSeq(ds, n + 1, k)
     ELSE IF -6 < n /\ n <= 0 THEN <<"0", ".">> \o Repeat("0", -n) \o ds
     ELSE LET exp == (IF n - 1 >= 0 THEN <<"e", "+">> ELSE <<"e", "-">>)
                       \o DigitsOfInt(IF n - 1 >= 0 THEN n - 1 ELSE 1 - n)
          IN IF k = 1 THEN ds \o exp
             ELSE <<ds[1], ".">> \o SubSeq(ds, 2, k) \o exp

\* Number::toString for x > 0, steps 6 to 10 of the specification
PositiveToString(m, e) == Written(Op("Decimal", <<m, e>>))

\* String(x), the characters
NumberToString(x) ==
  IF x.k = "nan" THEN <<"N", "a", "N">>
  ELSE IF x.k = "inf"
       THEN (IF x.s = 1 THEN <<>> ELSE <<"-">>) \o <<"I", "n", "f", "i", "n", "i", "t", "y">>
  ELSE IF x = Zero THEN <<"0">>
  ELSE (IF x.s = 1 THEN <<>> ELSE <<"-">>) \o PositiveToString(x.m, x.e)

\* the natural written by the digits cs[lo], .. cs[hi], four digits at a time
RECURSIVE BOfDigits(_, _, _)
BOfDigits(cs, lo, hi) ==
  IF hi < lo THEN <<>>
  ELSE IF hi - lo < 4
  THEN LET v(i) == IF i >= lo THEN DigitVal(cs[i]) ELSE 0
       IN BFromInt(v(hi - 3) * 1000 + v(hi - 2) * 100 + v(hi - 1) * 10 + v(hi))
  ELSE LET mid == (lo + hi) \div 2
       IN BAdd(BMul(BOfDigits(cs, lo, mid), BPow10(hi - mid)), BOfDigits(cs, mid + 1, hi))

\* the first place from i on where cs holds no character of the set, Len + 1
\* when there is none
SkipChars(cs, i, set) ==
  SetMin({j \in i..(Len(cs) + 1) : j = Len(cs) + 1 \/ cs[j] \notin set})

Digits == {DigitChars[d] : d \in 1..10}

StartsWith(cs, i, word) ==
  i + Len(word) - 1 <= Len(cs) /\ SubSeq(cs, i, i + Len(word) - 1) = word

\* the sign written at place i, and the place behind it
SignAt(cs, i) == IF StartsWith(cs, i, <<"-">>) THEN -1 ELSE 1

AfterSign(cs, i) ==
  IF StartsWith(cs, i, <<"-">>) \/ StartsWith(cs, i, <<"+">>) THEN i + 1 ELSE i

ParseIntAt(cs, sg, i1) ==
  LET i2 == SkipChars(cs, i1, Digits)
  IN IF i2 = i1 THEN NaN ELSE Op("Round", <<sg, BOfDigits(cs, i1, i2 - 1), FALSE, 0>>)

\* parseInt(cs, 10): white space, a sign, then the digits up to the first
\* character that is none; NaN when there is no digit
ParseInt(cs) ==
  ParseIntAt(cs, SignAt(cs, SkipChars(cs, 1, {" "})),
                     AfterSign(cs, SkipChars(cs, 1, {" "})))

\* the small natural written by the digits cs[lo], .. cs[hi]
SmallOf(b) == Limb(b, 1) + Radix * Limb(b, 2)

ParseSmall(cs, lo, hi) == SmallOf(BOfDigits(cs, lo, hi))

\* the number of the literal: fr digits behind the point, and an exponent
\* when there is an e and a digit from e2 on
ParseLiteral(cs, sg, i1, i2, f1, fr, hasE, es, e2) ==
  LET e3 == SkipChars(cs, e2, Digits)
      ex == IF hasE /\ e3 > e2 THEN es * ParseSmall(cs, e2, e3 - 1) ELSE 0
      c  == BAdd(BMul(BOfDigits(cs, i1, i2 - 1), BPow10(fr)),
                         BOfDigits(cs, f1, f1 + fr - 1))
  IN Op("RoundDec", <<sg, c, ex - fr>>)

\* the exponent, from i3 on
ParseExponent(cs, sg, i1, i2, f1, f2) ==
  LET i3 == IF f2 > f1 \/ i2 > i1 THEN f2 ELSE i2
      e1 == IF StartsWith(cs, i3, <<"e">>) \/ StartsWith(cs, i3, <<"E">>) THEN i3 + 1 ELSE i3
  IN IF i2 = i1 /\ f2 = f1 THEN NaN
     ELSE ParseLiteral(cs, sg, i1, i2, f1, IF f2 > f1 THEN f2 - f1 ELSE 0,
                               e1 > i3, SignAt(cs, e1), AfterSign(cs, e1))

\* the point and the digits behind it, from i2 on
ParseFraction(cs, sg, i1, i2) ==
  LET f1 == IF StartsWith(cs, i2, <<".">>) THEN i2 + 1 ELSE i2
  IN ParseExponent(cs, sg, i1, i2, f1, SkipChars(cs, f1, Digits))

\* the digits before the point, from i1 on
ParseFloatAt(cs, sg, i1) ==
  IF StartsWith(cs, i1, <<"I", "n", "f", "i", "n", "i", "t", "y">>) THEN Inf(sg)
  ELSE ParseFraction(cs, sg, i1, SkipChars(cs, i1, Digits))

\* parseFloat(cs): white space, a sign, then Infinity or the longest decimal
\* literal (digits, a point and digits, an exponent with digits); NaN when
\* there is no digit
ParseFloat(cs) ==
  ParseFloatAt(cs, SignAt(cs, SkipChars(cs, 1, {" "})),
                       AfterSign(cs, SkipChars(cs, 1, {" "})))

(***************************************************************************)
(* BigNumber: decimal numbers s * c * 10^q of any size, NaN and the two     *)
(* infinities.  The library is not part of the package; what is modelled    *)
(* is exact decimal arithmetic, a quotient rounded half up to 20 decimal    *)
(* places, and NaN for what is not a number.                                *)
(***************************************************************************)
BigFin(s, c, q) == [k |-> "fin", s |-> IF c = <<>> THEN 1 ELSE s, c |-> c, q |-> q]

BigNaN == [k |-> "nan", s |-> 1, c |-> <<>>, q |-> 0]

BigInf(s) == [k |-> "inf", s |-> s, c |-> <<>>, q |-> 0]

BigOfDecimal(s, d) == BigFin(s, BOfPair(d.s), d.n - d.k)

\* new BigNumber(v): the decimal that String(v) writes
BigNumber(v) ==
  IF ~IsNumber(v) \/ v.k = "nan" THEN BigNaN
  ELSE IF v.k = "inf" THEN BigInf(v.s)
  ELSE IF v = Zero THEN BigFin(1, <<>>, 0)
  ELSE BigOfDecimal(v.s, Op("Decimal", <<v.m, v.e>>))

\* toNumber
BigToNumber(a) ==
  IF a.k = "nan" THEN NaN
  ELSE IF a.k = "inf" THEN Inf(a.s)
  ELSE Op("RoundDec", <<a.s, a.c, a.q>>)

\* the coefficient of a at the exponent q <= a.q
BigCoeff(a, q) == IF a.q = q THEN a.c ELSE BMul(a.c, BPow10(a.q - q))

\* -1, 0 or 1 as a < b, a = b or a > b, for two numbers that are not NaN
BigCmp(a, b) ==
  LET sa == IF a.k = "fin" /\ a.c = <<>> THEN 0 ELSE a.s
      sb == IF b.k = "fin" /\ b.c = <<>> THEN 0 ELSE b.s
      q  == Min2(a.q, b.q)
  IN IF sa # sb THEN (IF sa < sb THEN -1 ELSE 1)
     ELSE IF sa = 0 THEN 0
     ELSE IF a.k = "inf" \/ b.k = "inf"
          THEN (IF a.k = b.k THEN 0 ELSE IF a.k = "inf" THEN sa ELSE -sa)
     ELSE sa * BCmp(Op("BigCoeff", <<a, q>>), Op("BigCoeff", <<b, q>>))

BigNeg(a) == IF a.k = "nan" \/ (a.k = "fin" /\ a.c = <<>>) THEN a ELSE [a EXCEPT !.s = -a.s]

\* sa * ca * 10^q + sb * cb * 10^q
BigSum(sa, ca, sb, cb, q) ==
  IF sa = sb THEN BigFin(sa, BAdd(ca, cb), q)
  ELSE IF BCmp(ca, cb) >= 0 THEN BigFin(sa, BSub(ca, cb), q)
  ELSE BigFin(sb, BSub(cb, ca), q)

BigAdd(a, b) ==
  IF a.k = "nan" \/ b.k = "nan" THEN BigNaN
  ELSE IF a.k = "inf" \/ b.k = "inf"
       THEN (IF a.k = b.k /\ a.s # b.s THEN BigNaN ELSE IF a.k = "inf" THEN a ELSE b)
  ELSE BigSum(a.s, Op("BigCoeff", <<a, Min2(a.q, b.q)>>),
        b.s, Op("BigCoeff", <<b, Min2(a.q, b.q)>>),
              Min2(a.q, b.q))

BigSubtract(a, b) == BigAdd(a, BigNeg(b))

BigMultiply(a, b) ==
  IF a.k = "nan" \/ b.k = "nan" THEN BigNaN
  ELSE IF a.k = "inf" \/ b.k = "inf"
       THEN (IF (a.k = "fin" /\ a.c = <<>>) \/ (b.k = "fin" /\ b.c = <<>>) THEN BigNaN
             ELSE BigInf(a.s * b.s))
  ELSE BigFin(a.s * b.s, BMul(a.c, b.c), a.q + b.q)

\* s * num / den, rounded half up, as so many units of 10^(-20)
BigQuot(s, num, den) == BigFin(s, Op("BDivMod", <<BAdd(BShl(num, 1), den), BShl(den, 1)>>).q, -20)

\* a / b to 20 decimal places, the last one rounded half up
BigDivide(a, b) ==
  IF a.k = "nan" \/ b.k = "nan" THEN BigNaN
  ELSE IF a.k = "inf" THEN (IF b.k = "inf" THEN BigNaN ELSE BigInf(a.s * b.s))
  ELSE IF b.k = "inf" THEN BigFin(1, <<>>, 0)
  ELSE IF b.c = <<>> THEN (IF a.c = <<>> THEN BigNaN ELSE BigInf(a.s * b.s))
  ELSE BigQuot(a.s * b.s, Op("BigCoeff", <<a, Min2(a.q, b.q - 20)>>),
        Op("BigCoeff", <<b, Min2(b.q, a.q + 20)>>))

\* percentage(p): p hundredths of a
BigPercentage(a, p) == BigDivide(BigMultiply(a, p), BigFin(1, <<100>>, 0))

(***************************************************************************)
(* The helpers of Money that work on numbers.                              *)
(***************************************************************************)
\* x === y for two numbers
NumEq(x, y) == x.k # "nan" /\ y.k # "nan" /\ x = y

\* parseFloat and parseInt first make a string of their argument
SameParsed(str) == NumEq(Op("ParseFloat", <<str>>), Op("ParseInt", <<str>>))

_isInteger(n) ==
  /\ IsNumber(n)
  /\ The({SameParsed(str) : str \in {NumberToString(n)}})
  /\ ~IsNaN(n)

\* the condition of the loop is false
LoopEnds(c) == ~(~_isInteger(c) /\ IsFinite(c))

\* the first of two searches that finds something (what is not -1)
First(found, rest) == IF found >= 0 THEN found ELSE rest

\* the first j among the n numbers from lo on at which the loop of
\* _decimalPlaces stops with c = a * Math.pow(10, j), or -1: the values of c
\* do not depend on one another, and the loop looks at them in this order
\* (n is a power of 4)
RECURSIVE LoopExit(_, _, _)
LoopExit(a, lo, n) ==
  IF n = 1
  THEN (IF LoopEnds(NumMul(a, Op("MathPow10", <<lo>>))) THEN lo ELSE -1)
  ELSE First(LoopExit(a, lo, n \div 4),
             First(LoopExit(a, lo + (n \div 4), n \div 4),
                   First(LoopExit(a, lo + 2 * (n \div 4), n \div 4),
                         LoopExit(a, lo + 3 * (n \div 4), n \div 4))))

\* count - 1 is the number of times the loop body ran; c overflows to
\* Infinity before 4^5 rounds whatever a is
\* the count itself, not the count less one
CountsTheLastRound(n) == Min2(LoopExit(MathAbs(n), 0, 4^5) + 1, 20)

_decimalPlaces(n) == Min2(LoopExit(MathAbs(n), 0, 4^5), 20)

(***************************************************************************)
(* Values at work: properties, truth, strings, checks, errors.             *)
(***************************************************************************)
\* o.f for an object o
Get(o, f) == IF o[f] = Absent THEN Undefined ELSE o[f]

\* v.f for a value v that is neither undefined nor null: objects of the heap
\* are reached through their reference, and a number, a string, a boolean or
\* a Currency has none of the four properties
Prop(h, v, f) ==
  IF v.t = "ref" THEN Get(h[v.i], f)
  ELSE IF v.t = "object" THEN Get(v, f)
  ELSE Undefined

\* o.f = x: ignored by a frozen object
Assign(o, f, x) == IF o.frozen THEN o ELSE [o EXCEPT ![f] = x]

Truthy(v) ==
  CASE v.t \in {"undefined", "null"} -> FALSE
    [] v.t = "boolean" -> v.b
    [] v.t = "number" -> v.k # "nan" /\ v # Zero
    [] v.t = "string" -> v.c # <<>>
    [] OTHER -> TRUE

\* v.toString(), the characters; that of a Currency is its code
StringOf(v) ==
  CASE v.t = "number" -> NumberToString(v)
    [] v.t = "string" -> v.c
    [] v.t = "boolean" -> IF v.b THEN <<"t", "r", "u", "e">> ELSE <<"f", "a", "l", "s", "e">>
    [] v.t = "currency" -> v.code
    [] OTHER -> <<"[", "o", "b", "j", "e", "c", "t", "]">>

\* whether check(value, pattern) of Meteor passes
check(value, pattern) ==
  CASE pattern = "Number" -> value.t = "number"
    [] pattern = "String" -> value.t = "string"
    [] pattern = "Currency" -> value.t = "currency"
    [] pattern = "Match.Integer" ->
          IsFinite(value) /\ value.e >= 0 /\ BBitLen(value.m) + value.e <= 31

MatchError == [t |-> "error", name |-> "Match.Error", msg |-> <<>>]

TypeError == [t |-> "error", name |-> "TypeError", msg |-> <<>>]

\* new Error(msg)
Error(msg) == [t |-> "error", name |-> "Error", msg |-> msg]

DEFAULT_CURRENCY == <<"E", "U", "R">>

\* Money.ERRORS: the messages, as their wording and the codes they embed
sameCurrencyConversion(currency) ==
  <<"Converting to same currency '", Op("StringOf", <<currency>>), "' is not allowed">>

currencyMissmatch(requiredCurrency, passedCurrency) ==
  <<"Currency passed '", Op("StringOf", <<passedCurrency>>), "' does not match required '",
    Op("StringOf", <<requiredCurrency>>), "'">>

(***************************************************************************)
(* Money.  A handler takes the heap (the Money instances alive), the       *)
(* receiver and the arguments, and yields how the call ends: the value it  *)
(* returns or the error it throws.                                         *)
(***************************************************************************)
\* how the constructor ends: the heap then, the instance or the error, and
\* the data object as the constructor leaves it
Returned(h, v, d) == [heap |-> h, kind |-> "return", val |-> v, data |-> d]

Thrown(h, e, d) == [heap |-> h, kind |-> "throw", val |-> e, data |-> d]

\* how a method ends; arith tells whether a BigNumber was made before
Return(v) == [kind |-> "return", val |-> v, arith |-> TRUE]

Throw(e, arith) == [kind |-> "throw", val |-> e, arith |-> arith]

\* Math.pow(10, v)
MathPow(v) ==
  IF IsSmallInt(v) \/ (v.t = "string" /\ v.c # <<>> /\ Len(v.c) <= 3
                        /\ \A i \in 1..Len(v.c) : IsDigit(v.c[i]))
  THEN Op("MathPow10", <<IntOfNum(IF v.t = "string" THEN Op("ParseInt", <<v.c>>) ELSE v)>>)
  ELSE NaN

fields == [amount |-> "Number", base |-> "String", decimals |-> "Match.Integer",
           currency |-> "Currency"]

\* Space.domain.ValueObject.call(this, data) checks data against fields()
\* and copies the fields to the instance; Object.freeze(this) follows
Matches(d) == \A f \in DOMAIN fields : d[f] # Absent /\ check(d[f], fields[f])

\* an instance that is left open to writes
LeftUnfrozen(o) == o

Freeze(o) == [o EXCEPT !.frozen = TRUE]

Instance(d) == [Object(d.amount, d.currency, d.decimals, d.base) EXCEPT !.cls = "Money"]

\* the heap h with the data object d at its place, which is 0 when d is not
\* of the heap
Put(h, home, d) == IF home = 0 THEN h ELSE [h EXCEPT ![home] = d]

\* lines 36 and 37: the superclass checks the data, the instance is frozen
Checked(h, home, d) ==
  IF ~Matches(d) THEN Thrown(Put(h, home, d), MatchError, d)
  ELSE Returned(Put(h, home, d), Freeze(Instance(d)), d)

\* line 34
WithBase(h, home, d) ==
  The({Checked(h, home, Assign(d, "base", Str(NumberToString(MathFloor(c))))) :
         c \in {NumMul(Get(d, "amount"), MathPow(Get(d, "decimals")))}})

\* decimals that are given are kept, and only base is computed
KeepsGivenDecimals(h, home, d, strict) ==
  IF d.frozen /\ strict THEN Thrown(Put(h, home, d), TypeError, d)
  ELSE IF Get(d, "decimals") # Undefined THEN WithBase(h, home, d)
  ELSE The({WithBase(h, home, Assign(d, "decimals", NumOfInt(count))) :
              count \in {_decimalPlaces(Get(d, "amount"))}})

\* line 33; a write to a frozen object stops strict code here at the latest
WithDecimals(h, home, d, strict) ==
  IF d.frozen /\ strict THEN Thrown(Put(h, home, d), TypeError, d)
  ELSE The({WithBase(h, home, Assign(d, "decimals", NumOfInt(count))) :
              count \in {_decimalPlaces(Get(d, "amount"))}})

\* lines 30 to 32: new Currency(code) wants a string
WithCurrency(h, home, d, strict) ==
  LET cur  == Get(d, "currency")
      code == IF Truthy(cur) THEN cur ELSE Str(DEFAULT_CURRENCY)
  IN IF cur.t # "currency" /\ code.t # "string" THEN Thrown(Put(h, home, d), MatchError, d)
     ELSE WithDecimals(h, home,
                       IF cur.t = "currency" THEN d
                       ELSE Assign(d, "currency", Cur(Op("StringOf", <<code>>))),
                       strict)

\* line 18
ViaBase(d) == Get(d, "base") # Undefined /\ Get(d, "decimals") # Undefined

\* lines 18 to 22, the data object d being the argument (given) or the
\* empty object of line 13 with the two arguments still to be written
WithAmount(h, home, d, strict, given, amount, currency) ==
  IF given /\ ViaBase(d) /\ d.frozen /\ strict THEN Thrown(h, TypeError, d)
  ELSE IF ~(given /\ ViaBase(d)) /\ ~check(IF given THEN Get(d, "amount") ELSE amount, "Number")
  THEN Thrown(h, MatchError, d)
  ELSE WithCurrency(h, home,
                    IF ~given THEN Assign(Assign(d, "amount", amount), "currency", currency)
                    ELSE IF ViaBase(d)
                    THEN Assign(d, "amount",
                                NumDiv(Op("ParseInt", <<Op("StringOf", <<Get(d, "base")>>)>>),
                                       MathPow(Get(d, "decimals"))))
                    ELSE d,
                    strict)

\* new Money(...args).  An object given alone is the data object itself: one
\* of the heap (a Money, frozen) when args[1] is a reference, the caller's
\* literal otherwise.  A write to a frozen object throws a TypeError in
\* strict code and is ignored otherwise.
Constructor(h, args, strict) ==
  LET amount   == IF Len(args) >= 1 THEN args[1] ELSE Undefined
      currency == IF Len(args) >= 2 /\ args[2] # Undefined THEN args[2]
                  ELSE Str(DEFAULT_CURRENCY)
      single   == Len(args) = 1 /\ TypeOf(amount) = "object"
  IN IF single /\ amount.t = "null" THEN Thrown(h, TypeError, amount)
     ELSE WithAmount(h, IF single /\ amount.t = "ref" THEN amount.i ELSE 0,
                     IF single /\ amount.t = "ref" THEN h[amount.i]
                     ELSE IF single /\ amount.t = "object" THEN amount
                     ELSE Object(Absent, Absent, Absent, Absent),
                     strict, single, amount, currency)

\* new Money({amount: result, currency: currency}) in a method
Made(made) == IF made.kind = "throw" THEN Throw(made.val, TRUE) ELSE Return(made.val)

\* a result made without the currency, which then is the default one
ResultInDefaultCurrency(h, result, currency) ==
  Made(Op("Constructor", <<h, <<Object(result, Absent, Absent, Absent)>>, FALSE>>))

Result(h, result, currency) ==
  Made(Op("Constructor", <<h, <<Object(result, currency, Absent, Absent)>>, FALSE>>))

valueOf(h, this) == Return(this.amount)

isIn(h, this, currency) ==
  IF ~check(currency, "Currency") THEN Throw(MatchError, FALSE)
  ELSE [Return(Bool(this.currency.code = currency.code)) EXCEPT !.arith = FALSE]

\* building the message calls other.currency.toString()
Mismatch(this, passed) ==
  IF passed.t \in {"undefined", "null"} THEN Throw(TypeError, FALSE)
  ELSE Throw(Error(currencyMissmatch(this.currency, passed)), FALSE)

Compatible(this, passed, same) ==
  IF Truthy(passed) /\ same.kind = "throw" THEN same
  ELSE IF ~Truthy(passed) \/ ~same.val.b THEN Mismatch(this, passed)
  ELSE [Return(Bool(TRUE)) EXCEPT !.arith = FALSE]

\* a validation that only asks for a currency and never compares it
ValidatesPresenceOnly(h, this, other) ==
  IF other.t \in {"undefined", "null"} THEN Throw(TypeError, FALSE)
  ELSE IF ~Truthy(Prop(h, other, "currency"))
  THEN Mismatch(this, Prop(h, other, "currency"))
  ELSE [Return(Bool(TRUE)) EXCEPT !.arith = FALSE]

_validateCompatibility(h, this, other) ==
  IF other.t \in {"undefined", "null"} THEN Throw(TypeError, FALSE)
  ELSE Compatible(this, Prop(h, other, "currency"),
        Op("isIn", <<h, this, Prop(h, other, "currency")>>))

\* what BigNumber tells of a and b, neither NaN
BigIs(a, b, signs) == a.k # "nan" /\ b.k # "nan" /\ BigCmp(a, b) \in signs

\* the amount of the receiver and that of the argument, as BigNumbers
Mine(this) == Op("BigNumber", <<this.amount>>)

Theirs(h, other) == Op("BigNumber", <<Prop(h, other, "amount")>>)

\* a method that validates its argument and then computes
Validated(h, this, other, computed) ==
  LET valid == Op("_validateCompatibility", <<h, this, other>>)
  IN IF valid.kind = "throw" THEN valid ELSE computed

isEqual(h, this, other) ==
  Validated(h, this, other, Return(Bool(BigIs(Mine(this), Theirs(h, other), {0}))))

isGreaterThan(h, this, other) ==
  Validated(h, this, other, Return(Bool(BigIs(Mine(this), Theirs(h, other), {1}))))

isGreaterThanOrEqualTo(h, this, other) ==
  Validated(h, this, other, Return(Bool(BigIs(Mine(this), Theirs(h, other), {0, 1}))))

isLessThan(h, this, other) ==
  Validated(h, this, other, Return(Bool(BigIs(Mine(this), Theirs(h, other), {-1}))))

isLessThanOrEqualTo(h, this, other) ==
  Validated(h, this, other, Return(Bool(BigIs(Mine(this), Theirs(h, other), {-1, 0}))))

add(h, this, other) ==
  Validated(h, this, other,
            Result(h, BigToNumber(BigAdd(Mine(this), Theirs(h, other))), this.currency))

subtract(h, this, other) ==
  Validated(h, this, other,
            Result(h, BigToNumber(BigSubtract(Mine(this), Theirs(h, other))), this.currency))

\* a product of the two Numbers as they are
MultipliesNatively(h, this, other) ==
  Validated(h, this, other,
            Result(h, NumMul(this.amount, Prop(h, other, "amount")), this.currency))

multiply(h, this, other) ==
  Validated(h, this, other,
            Result(h, BigToNumber(BigMultiply(Mine(this), Theirs(h, other))), this.currency))

divide(h, this, other) ==
  Validated(h, this, other,
            Result(h, BigToNumber(BigDivide(Mine(this), Theirs(h, other))), this.currency))

delta(h, this, other) ==
  Validated(h, this, other, Return(BigToNumber(BigSubtract(Mine(this), Theirs(h, other)))))

\* nothing in Money looks at the percentage; of what is no number the
\* library makes NaN or an error of its own (libThrows)
percentage(h, this, p, libThrows) ==
  IF ~IsNumber(p) /\ libThrows THEN Throw(Error(<<"BigNumber">>), TRUE)
  ELSE Result(h, BigToNumber(BigPercentage(Mine(this), Op("BigNumber", <<p>>))), this.currency)

\* a conversion that does not ask whether the target is the own currency
ConvertsToAnyCurrency(h, this, rate, currency) ==
  IF ~check(rate, "Number") THEN Throw(MatchError, FALSE)
  ELSE IF ~check(currency, "Currency") THEN Throw(MatchError, FALSE)
  ELSE Result(h, BigToNumber(BigMultiply(Mine(this), Op("BigNumber", <<rate>>))),
              Cur(currency.code))

convert(h, this, rate, currency) ==
  IF ~check(rate, "Number") THEN Throw(MatchError, FALSE)
  ELSE IF ~check(currency, "Currency") THEN Throw(MatchError, FALSE)
  ELSE IF Op("isIn", <<h, this, currency>>).val.b
       THEN Throw(Error(sameCurrencyConversion(this.currency)), FALSE)
  ELSE Result(h, BigToNumber(BigMultiply(Mine(this), Op("BigNumber", <<rate>>))),
        Cur(currency.code))

(***************************************************************************)
(* Op(f, x) is the operator named f applied to the arguments x.  What is    *)
(* used in many places is used through Op, so that TLC unfolds its          *)
(* definition once however many places use it.                              *)
(***************************************************************************)
Op(f, x) ==
  CASE f = "BDivMod" -> BDivMod(x[1], x[2])
    [] f = "Round" -> Round(x[1], x[2], x[3], x[4])
    [] f = "RoundRat" -> RoundRat(x[1], x[2], x[3], x[4])
    [] f = "ScaleDec" -> ScaleDec(x[1], x[2], x[3], x[4])
    [] f = "Decimal" -> Decimal(x[1], x[2])
    [] f = "ParseFloat" -> ParseFloat(x[1])
    [] f = "ParseInt" -> ParseInt(x[1])
    [] f = "MathPow10" -> MathPow10(x[1])
    [] f = "StringOf" -> StringOf(x[1])
    [] f = "BigNumber" -> BigNumber(x[1])
    [] f = "RoundDec" -> RoundDec(x[1], x[2], x[3])
    [] f = "BigCoeff" -> BigCoeff(x[1], x[2])
    [] f = "Constructor" -> Constructor(x[1], x[2], x[3])
    [] f = "_validateCompatibility" -> _validateCompatibility(x[1], x[2], x[3])
    [] f = "valueOf" -> valueOf(x[1], x[2])
    [] f = "isIn" -> isIn(x[1], x[2], x[3])
    [] f = "isEqual" -> isEqual(x[1], x[2], x[3])
    [] f = "isGreaterThan" -> isGreaterThan(x[1], x[2], x[3])
    [] f = "isGreaterThanOrEqualTo" -> isGreaterThanOrEqualTo(x[1], x[2], x[3])
    [] f = "isLessThan" -> isLessThan(x[1], x[2], x[3])
    [] f = "isLessThanOrEqualTo" -> isLessThanOrEqualTo(x[1], x[2], x[3])
    [] f = "add" -> add(x[1], x[2], x[3])
    [] f = "subtract" -> subtract(x[1], x[2], x[3])
    [] f = "multiply" -> multiply(x[1], x[2], x[3])
    [] f = "divide" -> divide(x[1], x[2], x[3])
    [] f = "delta" -> delta(x[1], x[2], x[3])
    [] f = "percentage" -> percentage(x[1], x[2], x[3], x[4])
    [] f = "convert" -> convert(x[1], x[2], x[3], x[4])

(***************************************************************************)
(* The program: a caller that makes Money instances, keeps up to MaxHeap   *)
(* of them, and calls their methods, one call at a time.                   *)
(***************************************************************************)
MaxHeap == 2

EUR == <<"E", "U", "R">>

USD == <<"U", "S", "D">>

\* the number a literal of the program text stands for
Lit(cs) == Op("ParseFloat", <<cs>>)

Tenth == Lit(<<"0", ".", "1">>)

Fifth == Lit(<<"0", ".", "2">>)

Tiny == Lit(<<"1", "e", "-", "2", "1">>)

\* the amounts the caller makes Money of
Amounts == {Tenth, Fifth, Zero, Lit(<<"-", "1", ".", "5">>), Tiny, NaN}

NoFields == Object(Absent, Absent, Absent, Absent)

\* the argument lists the caller constructs with: amounts, an amount and a
\* currency, nothing, what is no amount, and object literals
NewArgs ==
  {<<a>> : a \in Amounts}
  \cup {<<Tenth, c>> : c \in {Str(USD), Cur(USD), Undefined}}
  \cup {<<>>, <<Str(<<"2", "0">>)>>, <<Cur(EUR)>>, <<Null>>}
  \cup {<<Object(Tenth, c, Absent, Absent)>> : c \in {Absent, Str(USD)}}
  \cup {<<Object(NaN, Str(EUR), Absent, Absent)>>,
        <<Object(Str(<<"2", "0">>), Absent, Absent, Absent)>>,
        <<NoFields>>,
        <<Object(Absent, Absent, NumOfInt(4), Str(<<"2", "0", "0", "0">>))>>,
        <<Object(Absent, Cur(EUR), NumOfInt(1), NumOfInt(-15))>>}

\* what a serialization keeps of a Money m
Serialized(m) == Object(Absent, m.currency, m.decimals, m.base)

\* arguments of the binary methods that are no Money
NoMoney ==
  {NumOfInt(1), Undefined, NoFields}
  \cup {Object(Tenth, Str(c), Absent, Absent) : c \in {EUR, <<>>}}

Percentages == {NumOfInt(50), NaN, Str(<<"5", "0">>), Undefined}

Rates == {Fifth, Str(<<"2">>)}

Targets == {Cur(EUR), Cur(USD), Str(USD)}

Binary ==
  {"add", "subtract", "multiply", "divide", "delta", "isEqual", "isGreaterThan",
   "isGreaterThanOrEqualTo", "isLessThan", "isLessThanOrEqualTo"}

VARIABLES heap, call, out

vars == <<heap, call, out>>

\* a call: the method (or "new"), the index of the receiver in the heap,
\* the arguments, whether the code runs strict, whether the library throws
\* on what is no number, and the index of the Money the argument serializes
Call(op, recv, args, strict, libThrows, of) ==
  [op |-> op, recv |-> recv, args |-> args, strict |-> strict,
   libThrows |-> libThrows, of |-> of]

NoCall == Call("none", 0, <<>>, FALSE, FALSE, 0)

\* how the last call ended
Outcome(c, kind, val, data, arith) ==
  [call |-> c, kind |-> kind, val |-> val, data |-> data, arith |-> arith]

NoOut == Outcome(NoCall, "none", Undefined, Undefined, FALSE)

Init == heap = <<>> /\ call = NoCall /\ out = NoOut

Issue(c) == call = NoCall /\ call' = c /\ out' = NoOut /\ UNCHANGED heap

InvokeNew ==
  /\ Len(heap) < MaxHeap
  /\ \/ \E args \in NewArgs : Issue(Call("new", 0, args, FALSE, FALSE, 0))
     \/ \E i \in 1..Len(heap), strict \in BOOLEAN :
          Issue(Call("new", 0, <<Ref(i)>>, strict, FALSE, 0))
     \/ \E i \in 1..Len(heap) :
          Issue(Call("new", 0, <<Serialized(heap[i])>>, FALSE, FALSE, i))

InvokeMethod ==
  \E recv \in 1..Len(heap) :
     \/ \E op \in Binary, other \in {Ref(i) : i \in 1..Len(heap)} \cup NoMoney :
          Issue(Call(op, recv, <<other>>, FALSE, FALSE, 0))
     \/ \E p \in Percentages, libThrows \in BOOLEAN :
          /\ IsNumber(p) => ~libThrows
          /\ Issue(Call("percentage", recv, <<p>>, FALSE, libThrows, 0))
     \/ \E rate \in Rates, currency \in Targets :
          Issue(Call("convert", recv, <<rate, currency>>, FALSE, FALSE, 0))
     \/ \E currency \in Targets : Issue(Call("isIn", recv, <<currency>>, FALSE, FALSE, 0))
     \/ Issue(Call("valueOf", recv, <<>>, FALSE, FALSE, 0))

\* the call runs to its end
Finish(r) ==
  /\ out' = Outcome(call, r.kind, r.val, Undefined, r.arith)
  /\ call' = NoCall
  /\ UNCHANGED heap

Run(op) == call.op = op

\* the constructor runs to its end; the caller keeps the instance
Construct(r) ==
  /\ heap' = IF r.kind = "return" THEN Append(r.heap, r.val) ELSE r.heap
  /\ out' = Outcome(call, r.kind, r.val, r.data, FALSE)
  /\ call' = NoCall

DoConstructor == Run("new") /\ Construct(Op("Constructor", <<heap, call.args, call.strict>>))

DoValueOf == Run("valueOf") /\ Finish(Op("valueOf", <<heap, heap[call.recv]>>))

DoConvert ==
  Run("convert") /\ Finish(Op("convert", <<heap, heap[call.recv], call.args[1], call.args[2]>>))

DoIsEqual == Run("isEqual") /\ Finish(Op("isEqual", <<heap, heap[call.recv], call.args[1]>>))

DoIsGreaterThan ==
  Run("isGreaterThan") /\ Finish(Op("isGreaterThan", <<heap, heap[call.recv], call.args[1]>>))

DoIsGreaterThanOrEqualTo ==
  /\ Run("isGreaterThanOrEqualTo")
  /\ Finish(Op("isGreaterThanOrEqualTo", <<heap, heap[call.recv], call.args[1]>>))

DoIsLessThan ==
      Run("isLessThan") /\ Finish(Op("isLessThan", <<heap, heap[call.recv], call.args[1]>>))

DoIsLessThanOrEqualTo ==
  /\ Run("isLessThanOrEqualTo")
  /\ Finish(Op("isLessThanOrEqualTo", <<heap, heap[call.recv], call.args[1]>>))

DoAdd == Run("add") /\ Finish(Op("add", <<heap, heap[call.recv], call.args[1]>>))

DoSubtract == Run("subtract") /\ Finish(Op("subtract", <<heap, heap[call.recv], call.args[1]>>))

DoMultiply == Run("multiply") /\ Finish(Op("multiply", <<heap, heap[call.recv], call.args[1]>>))

DoDivide == Run("divide") /\ Finish(Op("divide", <<heap, heap[call.recv], call.args[1]>>))

DoPercentage ==
  /\ Run("percentage")
  /\ Finish(Op("percentage", <<heap, heap[call.recv], call.args[1], call.libThrows>>))

DoDelta == Run("delta") /\ Finish(Op("delta", <<heap, heap[call.recv], call.args[1]>>))

DoIsIn == Run("isIn") /\ Finish(Op("isIn", <<heap, heap[call.recv], call.args[1]>>))

Next ==
  \/ InvokeNew
  \/ InvokeMethod
  \/ DoConstructor
  \/ DoValueOf
  \/ DoConvert
  \/ DoIsEqual
  \/ DoIsGreaterThan
  \/ DoIsGreaterThanOrEqualTo
  \/ DoIsLessThan
  \/ DoIsLessThanOrEqualTo
  \/ DoAdd
  \/ DoSubtract
  \/ DoMultiply
  \/ DoDivide
  \/ DoPercentage
  \/ DoDelta
  \/ DoIsIn

Spec == Init /\ [][Next]_vars

(***************************************************************************)
(* Properties of the Money instances and of how the calls end.             *)
(***************************************************************************)
\* the Money instances there are: those the caller keeps, and the one the
\* last call returned
Instances ==
  {heap[i] : i \in 1..Len(heap)}
  \cup (IF out.kind = "return" /\ out.val.t = "object" THEN {out.val} ELSE {})

\* whether the characters cs write an integer in decimal
IsIntegerString(cs) ==
  LET i1 == IF cs # <<>> /\ cs[1] = "-" THEN 2 ELSE 1
  IN Len(cs) >= i1 /\ \A i \in i1..Len(cs) : IsDigit(cs[i])

\* base / 10^decimals, as a Number
Represented(m) ==
  NumDiv(Op("ParseInt", <<m.base.c>>), Op("MathPow10", <<IntOfNum(m.decimals)>>))

WellFormed(m) ==
  /\ IsSmallInt(m.decimals) /\ IntOfNum(m.decimals) \in 0..20
  /\ m.base.t = "string" /\ IsIntegerString(m.base.c)
  /\ NumEq(m.amount, Represented(m))

\* C1: every Money instance, made by the constructor or returned by a
\* method, has an integer decimals from 0 to 20, a base that is the decimal
\* string of an integer, and amount = base / 10^decimals.  It is stated of
\* the instances with a finite amount: that there are others is C5's matter.
BaseAndDecimalsGiveAmount ==
  \A m \in Instances : IsFinite(m.amount) => WellFormed(m)

\* the constructor was given an amount that needs more than 20 fractional
\* digits and has returned
CappedAmountConstructed ==
  /\ out.call.op = "new" /\ out.call.args = <<Tiny>> /\ out.kind = "return"
  /\ out.val.decimals = NumOfInt(20)

SameFields(a, b) == \A f \in DOMAIN fields : a[f] = b[f]

\* C2: new Money({base: m.base, decimals: m.decimals, currency: m.currency})
\* returns an instance with the amount, base, decimals and currency of m.
RoundTripReproduces ==
  (out.call.op = "new" /\ out.call.of # 0) =>
     out.kind = "return" /\ SameFields(out.val, heap[out.call.of])

\* the last call was a binary method with a Money of the heap as argument
OnTwoMoney == out.call.op \in Binary /\ out.call.args[1].t = "ref"

Receiver == heap[out.call.recv]

Argument == heap[out.call.args[1].i]

\* C3: a binary method (add, subtract, multiply, divide, delta, the five
\* comparisons) on two Money whose currencies differ in code throws the
\* Error whose message holds the argument's code as passed and the
\* receiver's as required, before any BigNumber is made, and returns nothing.
DifferentCurrenciesThrow ==
  (OnTwoMoney /\ Receiver.currency.code # Argument.currency.code) =>
     /\ out.kind = "throw"
     /\ out.val = Error(<<"Currency passed '", Argument.currency.code,
                          "' does not match required '", Receiver.currency.code, "'">>)
     /\ ~out.arith

\* a division by a zero amount of another currency has thrown
DividedByZeroOfOtherCurrency ==
  /\ OnTwoMoney /\ out.call.op = "divide"
  /\ Receiver.currency.code # Argument.currency.code
  /\ Argument.amount = Zero
  /\ out.kind = "throw"

\* the Error of Money.ERRORS.currencyMissmatch
IsCurrencyMismatch(e) ==
  e.name = "Error" /\ Len(e.msg) = 5 /\ e.msg[1] = "Currency passed '"

\* C4: a binary method given what is no Money (a number, a value without a
\* currency, a value whose currency is no Currency) throws an error that is
\* not the currency mismatch error, and returns nothing.
NoMoneyThrowsItsOwnError ==
  (out.call.op \in Binary /\ out.call.args[1] \in NoMoney) =>
     out.kind = "throw" /\ ~IsCurrencyMismatch(out.val)

\* whether the constructor call goes by an amount (positional, or a record
\* without base and decimals), and the amount it gives
ByAmount(args) ==
  \/ args = <<>>
  \/ args # <<>> /\ args[1].t \notin {"ref", "object"}
  \/ args # <<>> /\ args[1].t = "object" /\ ~ViaBase(args[1])

GivenAmount(args) ==
  IF args = <<>> THEN Undefined
  ELSE IF Len(args) = 1 /\ args[1].t = "object" THEN Get(args[1], "amount")
  ELSE args[1]

\* C5: a construction whose amount is missing, is no number, or is NaN or
\* infinite fails and makes no instance, in the positional form and in the
\* record form.
BadAmountRejected ==
  (out.call.op = "new" /\ ByAmount(out.call.args)
     /\ ~IsFinite(GivenAmount(out.call.args))) => out.kind = "throw"

\* the last call was convert with a Currency of the receiver's code
ToOwnCurrency ==
  /\ out.call.op = "convert" /\ out.call.args[2].t = "currency"
  /\ out.call.args[2].code = heap[out.call.recv].currency.code

SameCurrencyError ==
  Error(<<"Converting to same currency '", heap[out.call.recv].currency.code,
          "' is not allowed">>)

\* C6, as claimed: convert to a Currency of the receiver's code throws the
\* same-currency Error whatever the rate is, and convert with a rate that
\* is no number to a Currency of another code throws the Match.Error.
SameCurrencyRejectedForAnyRate ==
  /\ ToOwnCurrency => out.kind = "throw" /\ out.val = SameCurrencyError
  /\ (out.call.op = "convert" /\ ~IsNumber(out.call.args[1]) /\ ~ToOwnCurrency
        /\ out.call.args[2].t = "currency") =>
       out.kind = "throw" /\ out.val = MatchError

\* C6, amended: convert with a rate that is a number to a Currency of the
\* receiver's code throws the same-currency Error; convert with a rate that
\* is no number throws the Match.Error whatever the target is; neither
\* returns a Money.
ConvertRejects ==
  /\ (ToOwnCurrency /\ IsNumber(out.call.args[1])) =>
       out.kind = "throw" /\ out.val = SameCurrencyError
  /\ (out.call.op = "convert" /\ ~IsNumber(out.call.args[1])) =>
       out.kind = "throw" /\ out.val = MatchError

\* a conversion to the own currency at a numeric rate has thrown
ConvertedToOwnCurrency ==
  ToOwnCurrency /\ IsNumber(out.call.args[1]) /\ out.kind = "throw"

\* C7: percentage(p) throws and returns no Money when p is not a finite
\* number, and returns a Money when it is.  It is stated of the numbers p:
\* what the library makes of what is no number is not Money's doing.
PercentageWantsFiniteNumber ==
  (out.call.op = "percentage" /\ IsNumber(out.call.args[1])) =>
     IF IsFinite(out.call.args[1])
     THEN out.kind = "return" /\ out.val.t = "object"
     ELSE out.kind = "throw"

\* x < y for two finite Numbers
NumLess(x, y) ==
  LET sx == IF x = Zero THEN 0 ELSE x.s
      sy == IF y = Zero THEN 0 ELSE y.s
      e  == Min2(x.e, y.e)
      c  == BCmp(BShl(x.m, x.e - e), BShl(y.m, y.e - e))
  IN IF sx # sy THEN sx < sy
     ELSE IF sx = 0 THEN FALSE
     ELSE IF sx = 1 THEN c < 0 ELSE c > 0

\* what the comparison named op tells of the Money i and j of the heap
Tells(op, i, j) == Op(op, <<heap, heap[i], Ref(j)>>).val.b

\* C8: of two Money a and b of one currency exactly one of a.isLessThan(b),
\* a.isEqual(b), a.isGreaterThan(b) is true, isLessThan exactly when
\* a.amount < b.amount, isGreaterThanOrEqualTo is the negation of
\* isLessThan and isLessThanOrEqualTo that of isGreaterThan.
ComparisonsAreTotal ==
  (out.call.op = "new" /\ out.kind = "return") =>
     \A i, j \in 1..Len(heap) :
        heap[i].currency.code = heap[j].currency.code =>
           /\ \E op \in {"isLessThan", "isEqual", "isGreaterThan"} :
                 \A o \in {"isLessThan", "isEqual", "isGreaterThan"} :
                    Tells(o, i, j) <=> o = op
           /\ (IsFinite(heap[i].amount) /\ IsFinite(heap[j].amount)) =>
                 (Tells("isLessThan", i, j) <=> NumLess(heap[i].amount, heap[j].amount))
           /\ Tells("isGreaterThanOrEqualTo", i, j) <=> ~Tells("isLessThan", i, j)
           /\ Tells("isLessThanOrEqualTo", i, j) <=> ~Tells("isGreaterThan", i, j)

\* C9: a Money instance never changes: whatever is called, and however the
\* call ends, the instances the caller keeps have the fields they had, and
\* what a call makes is a further instance.
InstancesNeverChange ==
  [][/\ Len(heap') >= Len(heap)
     /\ \A i \in 1..Len(heap) : heap'[i] = heap[i]]_vars

\* a construction from a Money instance itself has ended
ConstructedFromInstance ==
  out.call.op = "new" /\ out.call.args # <<>> /\ out.call.args[1].t = "ref"

\* the decimal a finite Number is written as, and the Number nearest to
\* s * c * 10^q
Dec(x) == Op("BigNumber", <<x>>)

Nearest(s, c, q) == Op("RoundDec", <<s, c, q>>)

\* the Number nearest to A + sb * B, for two decimals and sb = 1 or -1
ExactSum(A, B, sb) ==
  LET q == Min2(A.q, B.q)
      x == Op("BigCoeff", <<A, q>>)
      y == Op("BigCoeff", <<B, q>>)
  IN IF A.s = B.s * sb THEN Nearest(A.s, BAdd(x, y), q)
     ELSE IF BCmp(x, y) >= 0 THEN Nearest(A.s, BSub(x, y), q)
     ELSE Nearest(B.s * sb, BSub(y, x), q)

\* A / B in units of 10^(-20): the quotient and what is left
ExactQuotient(A, B) ==
  Op("BDivMod", <<Op("BigCoeff", <<A, Min2(A.q, B.q - 20)>>),
                   Op("BigCoeff", <<B, Min2(B.q, A.q + 20)>>)>>)

CurrencyIsKept ==
  /\ (out.call.op \in {"add", "subtract", "multiply", "divide", "percentage"}
        /\ out.kind = "return") => out.val.currency = heap[out.call.recv].currency
  /\ (out.call.op = "convert" /\ out.kind = "return") =>
       out.val.currency = Cur(out.call.args[2].code)

\* a Money in US dollars has been added to and has given a Money
AddedInDollars ==
  /\ out.call.op = "add" /\ out.kind = "return"
  /\ heap[out.call.recv].currency.code = USD

\* C12: the amount of every Money instance is a finite number, whatever was
\* constructed and whatever was added, subtracted, multiplied, divided,
\* taken a percentage of or converted.
AmountsAreFinite == \A m \in Instances : IsFinite(m.amount)

\* the constructor was given a record with base and decimals of the caller
\* and has returned
FromBaseAndDecimals ==
  /\ out.call.op = "new" /\ out.call.args # <<>> /\ out.call.args[1].t = "object"
  /\ ViaBase(out.call.args[1]) /\ out.kind = "return"

\* base / 10^decimals of the record the constructor was given
GivenValue ==
  NumDiv(Op("ParseInt", <<Op("StringOf", <<out.call.args[1].base>>)>>),
         MathPow(out.call.args[1].decimals))

\* C13, as claimed: an instance made from {base: b, decimals: d} has the
\* decimals d and the base b as given, and the amount b / 10^d.
GivenBaseAndDecimalsKept ==
  FromBaseAndDecimals =>
     /\ out.val.decimals = out.call.args[1].decimals
     /\ out.val.base = Str(Op("StringOf", <<out.call.args[1].base>>))
     /\ out.val.amount = GivenValue

\* C13, amended: an instance made from {base: b, decimals: d} has the
\* amount b / 10^d, and its decimals and base are derived from that amount
\* as for any other instance, whatever d and b were.
BaseAndDecimalsDerivedAgain ==
  FromBaseAndDecimals =>
     /\ out.val.amount = GivenValue
     /\ out.val.decimals = NumOfInt(_decimalPlaces(GivenValue))
     /\ out.val.base =
          Str(NumberToString(MathFloor(
                NumMul(GivenValue, Op("MathPow10", <<_decimalPlaces(GivenValue)>>)))))

\* {base: '2000', decimals: 4} has given an instance with decimals 1
DecimalsNotAsGiven ==
  /\ FromBaseAndDecimals /\ out.call.args[1].decimals = NumOfInt(4)
  /\ out.val.decimals = NumOfInt(1)

\* the constructor was called by the caller and has returned
Constructed == out.call.op = "new" /\ out.kind = "return"

\* |amount| * 10^k, and the number of times the loop of _decimalPlaces runs
\* its body for the amount a >= 0
Scaled(a, k) == NumMul(a, Op("MathPow10", <<k>>))

Rounds(a) == LoopExit(a, 0, 4^5)

\* C14, as claimed: the loop of _decimalPlaces runs its body at most 20
\* times, and decimals is the least k with |amount| * 10^k an integer when
\* there is one up to 20, and 20 otherwise.  It is stated of the finite
\* amounts.
DerivationStopsAtCap ==
  (Constructed /\ IsFinite(out.val.amount)) =>
     LET a  == MathAbs(out.val.amount)
         ks == {k \in 0..20 : _isInteger(Scaled(a, k))}
     IN /\ Rounds(a) \in 0..20
        /\ out.val.decimals = NumOfInt(IF ks = {} THEN 20 ELSE SetMin(ks))

\* C14, amended: the loop of _decimalPlaces ends, at the first k at which
\* |amount| * 10^k is an integer or is not finite, after k rounds, which
\* may be more than 20; decimals is the lesser of k and 20.
DerivationStopsAtFirst ==
  Constructed =>
     LET a == MathAbs(out.val.amount)
         j == Rounds(a)
     IN /\ j >= 0
        /\ LoopEnds(Scaled(a, j))
        /\ \A k \in 0..(j - 1) : ~LoopEnds(Scaled(a, k))
        /\ out.val.decimals = NumOfInt(Min2(j, 20))

\* an amount was constructed for which the loop ran more than 20 times
RanPastCap == Constructed /\ Rounds(MathAbs(out.val.amount)) > 20

\* C15: the constructor leaves the record it is given as it was: after
\* new Money(record) the record has the fields and values it had, whether
\* the construction has returned or thrown.
RecordLeftAlone ==
  (out.call.op = "new" /\ Len(out.call.args) = 1 /\ out.call.args[1].t = "object") =>
     out.data = out.call.args[1]

=============================================================================
